---- MODULE Spec2Model ----
(***************************************************************************)
(* Model of PYME/IO/DataSources/BaseDataSource.py: the legacy 4-D          *)
(* addressor (XYTCDataSource), the canonical 5-D addressor                 *)
(* (XYZTCDataSource / XYZTCWrapper) and the flattening wrapper             *)
(* (XYTCWrapper) over a flat, append-only sequence of 2-D slices.          *)
(*                                                                         *)
(* Slice i of the slice source holds, at pixel (x, y), the value           *)
(* <<i, x, y>>: the physical index is the slice's marker and the position  *)
(* makes every crop distinguishable.                                       *)
(***************************************************************************)
EXTENDS Integers, Sequences, FiniteSets, TLC

\* ------------------------------------------------------------------ bounds
\* width and height of every physical slice
SliceW == 2
SliceH == 2
\* the slice count of a legacy source is MaxSlices - 1 or MaxSlices
MaxSlices == 4
\* declared channel count of a legacy source: 1..MaxSizeC
MaxSizeC == 2
\* declared sizes of a canonical addressor: 1..MaxSize each
MaxSize == 2
\* largest bare integer / range end point used in an index specifier
MaxKey == 2

\* --------------------------------------------------------------- constants
\* the frame count above which auto_promote takes a series for a time series
PromoteThreshold == 100

\* ----------------------------------------------------- python value model
\* Python's None, and a present value, as sequences of length 0 and 1
None == <<>>
Some(v) == <<v>>

\* a bare integer index k, as it is passed to __getitem__
IntKey(k) == [bare |-> TRUE, start |-> Some(k), stop |-> None, step |-> None]
\* a python slice(a, b, c) passed to __getitem__; a, b, c are None or Some(int)
SliceKey(a, b, c) == [bare |-> FALSE, start |-> a, stop |-> b, step |-> c]
\* a python slice object, as stored in the normalised key list
PySlice(a, b, c) == [start |-> a, stop |-> b, step |-> c]

Max2(a, b) == IF a >= b THEN a ELSE b
Min2(a, b) == IF a <= b THEN a ELSE b

\* slice.indices(n): the (start, stop, step) triple python clamps against n
SliceIndices(s, n) ==
    LET step == IF s.step = None THEN 1 ELSE s.step[1]
        lower == IF step < 0 THEN 0 - 1 ELSE 0
        upper == IF step < 0 THEN n - 1 ELSE n
        clamp(v) == IF v < 0 THEN Max2(v + n, lower) ELSE Min2(v, upper)
        start == IF s.start = None
                    THEN (IF step < 0 THEN upper ELSE lower)
                    ELSE clamp(s.start[1])
        stop == IF s.stop = None
                   THEN (IF step < 0 THEN lower ELSE upper)
                   ELSE clamp(s.stop[1])
    IN  <<start, stop, step>>

\* len(range(start, stop, step)) for a positive step
RangeLen(ind) ==
    IF ind[2] > ind[1] THEN ((ind[2] - ind[1] - 1) \div ind[3]) + 1 ELSE 0

\* range(start, stop, step) as the sequence of the indices it enumerates
RangeSeq(ind) == [k \in 1..RangeLen(ind) |-> ind[1] + (k - 1) * ind[3]]

\* the index-list normalisation both __getitem__ methods start with:
\* -1 becomes slice(-1, None), any other bare k becomes slice(k, k + 1)
NormalizeKey(e) ==
    IF e.bare
       THEN IF e.start[1] = 0 - 1
               THEN PySlice(Some(0 - 1), None, None)
               ELSE PySlice(e.start, Some(e.start[1] + 1), None)
       ELSE PySlice(e.start, e.stop, e.step)

NormalizeKeys(keys) == [i \in 1..Len(keys) |-> NormalizeKey(keys[i])]

\* _slice_len(slice(start, stop, step)) with python's floor division
slice_len(ind) == (ind[2] - ind[1]) \div ind[3]

\* ------------------------------------------------------------ numpy arrays
\* an array is its shape and a function from index tuples to values
Idx2(sh) == (0..(sh[1] - 1)) \X (0..(sh[2] - 1))
Idx3(sh) == (0..(sh[1] - 1)) \X (0..(sh[2] - 1)) \X (0..(sh[3] - 1))
Idx4(sh) == (0..(sh[1] - 1)) \X (0..(sh[2] - 1)) \X (0..(sh[3] - 1))
               \X (0..(sh[4] - 1))
Idx5(sh) == (0..(sh[1] - 1)) \X (0..(sh[2] - 1)) \X (0..(sh[3] - 1))
               \X (0..(sh[4] - 1)) \X (0..(sh[5] - 1))

\* the value np.zeros fills a fresh buffer with
ZeroPx == <<>>

\* outcome of a call: a returned value (None or Some(array)) or an exception
Returned(v) == [status |-> "ok", exc |-> "", val |-> v]
Raised(e) == [status |-> "raise", exc |-> e, val |-> None]
NoCall == [status |-> "none", exc |-> "", val |-> None]

\* what a read reports: its outcome and the physical slice reads it issued
Result(r, rd) == [ret |-> r, reads |-> rd]

VARIABLES
    numSlices,  \* slice source: number of 2-D slices appended so far
    source,     \* slice source: its events, its completeness and how it
                \* exposes is_complete
    legacy,     \* the XYTCDataSource: additionalDims, sizeC, oldSlice, oldData
    canon,      \* the XYZTCWrapper: order tag, strides, shape
    flat,       \* the XYTCWrapper over canon
    pc,         \* the sequential caller: "idle" or "returned"
    target,     \* the object the last call was made on
    lastKeys,   \* the index list the last call was given
    ret,        \* outcome of the last call
    reads,      \* physical slice indices the last call asked the source for
    thr,        \* concurrent callers of the legacy read: pc, keys, r, ret
    spool       \* the HDF spooler with the acquisator's and the event
                \* log's handler lists

vars ==
    <<numSlices, source, legacy, canon, flat, pc, target, lastKeys, ret, reads,
      thr, spool>>

\* ------------------------------------------------------------ slice source
\* getSliceShape() of the slice source
getSliceShape == <<SliceW, SliceH>>

\* slice(index) of the slice source: a 2-D buffer, or IndexOutOfRange
SourceHasSlice(n, i) == 0 <= i /\ i < n
getSlice(i) ==
    [shape |-> getSliceShape,
     data |-> [p \in Idx2(getSliceShape) |-> <<i, p[1], p[2]>>]]

\* a slice source that exposes is_complete the way BaseDataSource does (a
\* property, always True) and has no events
BaseSource ==
    [events |-> <<>>, complete |-> TRUE, is_complete_property |-> TRUE]

\* numpy's a[kx, ky] on a 2-D slice, kx and ky normalised python slices
Crop(a, kx, ky) ==
    LET xs == RangeSeq(SliceIndices(kx, a.shape[1]))
        ys == RangeSeq(SliceIndices(ky, a.shape[2]))
        sh == <<Len(xs), Len(ys)>>
    IN  [shape |-> sh,
         data |-> [p \in Idx2(sh) |-> a.data[<<xs[p[1] + 1], ys[p[2] + 1]>>]]]

\* ------------------------------------------------------ canonical addressor
OrderTags == {"XYZTC", "XYTZC", "XYZCT", "XYTCZ", "XYCZT", "XYCTZ"}

\* tags the constructor rejects: too short, an axis missing or repeated,
\* X and Y not leading
OtherTags == {"XYZ", "XYCT", "XYZTZ", "ZXYTC", "YXZTC", "X", ""}

\* the characters of an order tag
TagChars(order) ==
    CASE order = "XYZTC" -> <<"X", "Y", "Z", "T", "C">>
      [] order = "XYTZC" -> <<"X", "Y", "T", "Z", "C">>
      [] order = "XYZCT" -> <<"X", "Y", "Z", "C", "T">>
      [] order = "XYTCZ" -> <<"X", "Y", "T", "C", "Z">>
      [] order = "XYCZT" -> <<"X", "Y", "C", "Z", "T">>
      [] order = "XYCTZ" -> <<"X", "Y", "C", "T", "Z">>
      [] order = "XYZ" -> <<"X", "Y", "Z">>
      [] order = "XYCT" -> <<"X", "Y", "C", "T">>
      [] order = "XYZTZ" -> <<"X", "Y", "Z", "T", "Z">>
      [] order = "ZXYTC" -> <<"Z", "X", "Y", "T", "C">>
      [] order = "YXZTC" -> <<"Y", "X", "Z", "T", "C">>
      [] order = "X" -> <<"X">>
      [] order = "" -> <<>>

\* input_order.startswith('XY')
StartsWithXY(order) ==
    LET ch == TagChars(order)
    IN  Len(ch) >= 2 /\ ch[1] = "X" /\ ch[2] = "Y"

\* the stride table with the time stride of 'XYZCT' copied from the channel
\* stride of 'XYZTC'
StridesCopied(input_order, size_z, size_t, size_c) ==
    CASE input_order = "XYZTC" ->
            [z |-> 1, t |-> size_z, c |-> size_z * size_t]
      [] input_order = "XYTZC" ->
            [z |-> size_t, t |-> 1, c |-> size_z * size_t]
      [] input_order = "XYZCT" ->
            [z |-> 1, t |-> size_z * size_t, c |-> size_z]
      [] input_order = "XYTCZ" ->
            [z |-> size_t * size_c, t |-> 1, c |-> size_t]
      [] input_order = "XYCZT" ->
            [z |-> size_c, t |-> size_c * size_z, c |-> 1]
      [] input_order = "XYCTZ" ->
            [z |-> size_t * size_c, t |-> size_c, c |-> 1]

\* the stride table of XYZTCDataSource.__init__
Strides(input_order, size_z, size_t, size_c) ==
    CASE input_order = "XYZTC" ->
            [z |-> 1, t |-> size_z, c |-> size_z * size_t]
      [] input_order = "XYTZC" ->
            [z |-> size_t, t |-> 1, c |-> size_z * size_t]
      [] input_order = "XYZCT" ->
            [z |-> 1, t |-> size_z * size_c, c |-> size_z]
      [] input_order = "XYTCZ" ->
            [z |-> size_t * size_c, t |-> 1, c |-> size_t]
      [] input_order = "XYCZT" ->
            [z |-> size_c, t |-> size_c * size_z, c |-> 1]
      [] input_order = "XYCTZ" ->
            [z |-> size_t * size_c, t |-> size_c, c |-> 1]

\* no canonical addressor constructed yet
NoCanon ==
    [built |-> FALSE, input_order |-> "", z_stride |-> 0, t_stride |-> 0,
     c_stride |-> 0, shape |-> <<>>]

\* XYZTCWrapper.__init__ after XYZTCDataSource.__init__ succeeded
NewCanon(input_order, size_z, size_t, size_c) ==
    LET st == Strides(input_order, size_z, size_t, size_c)
    IN  [built |-> TRUE, input_order |-> input_order,
         z_stride |-> st.z, t_stride |-> st.t, c_stride |-> st.c,
         shape |-> getSliceShape \o <<size_z, size_t, size_c>>]

\* the constructor without the check of lines 198-199
InitErrorOneCheck(input_order) ==
    IF input_order \notin OrderTags
       THEN "RuntimeError: Input order not supported"
       ELSE ""

\* the exception XYZTCDataSource.__init__ raises for a tag, "" if none
InitError(input_order) ==
    IF ~StartsWithXY(input_order)
       THEN "RuntimeError: First 2 dimensions of input must be X and Y"
       ELSE IF input_order \notin OrderTags
               THEN "RuntimeError: Input order not supported"
               ELSE ""

\* numpy broadcasting of a value extent a into a target extent b
Broadcasts(a, b) == a = b \/ a = 1

\* the extents of the buffer np.zeros allocates, from the five index triples
OutShape(ind) == [i \in 1..5 |-> slice_len(ind[i])]

\* the cell of one loop iteration that the slice is written to: (zi, ci, ti)
WriteCell(zi, ti, ci) == <<zi, ci, ti>>

\* line 258 with the t and z strides exchanged
slice_idx_swapped(self, z, t, c) ==
    self.c_stride * c + self.z_stride * t + self.t_stride * z

\* line 258: the physical slice of the coordinate (z, t, c)
slice_idx(self, z, t, c) ==
    self.c_stride * c + self.t_stride * t + self.z_stride * z

\* lines 238-261 of XYZTCDataSource.__getitem__: the read of a list of five
\* index specifiers on addressor self over a source of n slices
XYZTC_read5(self, keys, n) ==
    LET nk == NormalizeKeys(keys)
        ind == [i \in 1..5 |-> SliceIndices(nk[i], self.shape[i])]
        out == OutShape(ind)
        zs == RangeSeq(ind[3])
        ts == RangeSeq(ind[4])
        cs == RangeSeq(ind[5])
        total == Len(cs) * Len(ts) * Len(zs)
        \* loop nest: c outermost, then t, then z
        zi(k) == (k - 1) % Len(zs)
        ti(k) == ((k - 1) \div Len(zs)) % Len(ts)
        ci(k) == (k - 1) \div (Len(zs) * Len(ts))
        idxAt(k) ==
            slice_idx(self, zs[zi(k) + 1], ts[ti(k) + 1], cs[ci(k) + 1])
        crop == Crop(getSlice(0), nk[1], nk[2])
        fail(k) ==
            LET w == WriteCell(zi(k), ti(k), ci(k))
            IN  IF ~SourceHasSlice(n, idxAt(k)) THEN "IndexOutOfRange"
                ELSE IF w[1] >= out[3] \/ w[2] >= out[4] \/ w[3] >= out[5]
                        THEN "IndexError"
                ELSE IF ~Broadcasts(crop.shape[1], out[1])
                           \/ ~Broadcasts(crop.shape[2], out[2])
                        THEN "ValueError"
                ELSE ""
        failing == {k \in 1..total : fail(k) # ""}
    IN  IF \E i \in 1..5 : out[i] < 0
           THEN Result(Raised("ValueError"), <<>>)
        ELSE IF failing # {}
           THEN LET kf == CHOOSE k \in failing : \A j \in failing : k <= j
                IN  Result(Raised(fail(kf)), [k \in 1..kf |-> idxAt(k)])
        ELSE
            LET written(p) ==
                    \E k \in 1..total :
                        WriteCell(zi(k), ti(k), ci(k)) = <<p[3], p[4], p[5]>>
                kOf(p) ==
                    CHOOSE k \in 1..total :
                        WriteCell(zi(k), ti(k), ci(k)) = <<p[3], p[4], p[5]>>
                px(p) ==
                    LET c2 == Crop(getSlice(idxAt(kOf(p))), nk[1], nk[2])
                        xi == IF c2.shape[1] = 1 THEN 0 ELSE p[1]
                        yi == IF c2.shape[2] = 1 THEN 0 ELSE p[2]
                    IN  c2.data[<<xi, yi>>]
            IN  Result(Returned(Some(
                    [shape |-> out,
                     data |-> [p \in Idx5(out) |->
                                 IF written(p) THEN px(p) ELSE ZeroPx]])),
                    [k \in 1..total |-> idxAt(k)])

\* a read that takes a missing trailing specifier for the whole axis and
\* ignores specifiers beyond the fifth, as numpy does
XYZTC_getitem_lenient(self, keys, n) ==
    XYZTC_read5(self,
                [i \in 1..5 |-> IF i <= Len(keys)
                                   THEN keys[i]
                                   ELSE SliceKey(None, None, None)],
                n)

\* a read that swallows the source's IndexOutOfRange and hands back the
\* buffer as far as it was filled
XYZTC_getitem_suppressing(self, keys, n) ==
    IF Len(keys) # 5
       THEN Result(Raised("RuntimeError: Must provide a 5-dimensional slice"),
                   <<>>)
       ELSE LET r == XYZTC_read5(self, keys, n)
            IN  IF r.ret.exc = "IndexOutOfRange"
                   THEN Result(Returned(Some([shape |-> <<0, 0, 0, 0, 0>>,
                                              data |-> <<>>])), r.reads)
                   ELSE r

\* XYZTCDataSource.__getitem__ on addressor self over a source of n slices
XYZTC_getitem(self, keys, n) ==
    IF Len(keys) # 5
       THEN Result(Raised("RuntimeError: Must provide a 5-dimensional slice"),
                   <<>>)
       ELSE XYZTC_read5(self, keys, n)

\* -------------------------------------------------------- legacy addressor
\* the extra-axis modes, as the character sequence of additionalDims
ModeT == <<"T">>
ModeC == <<"C">>
ModeTC == <<"T", "C">>
ModeCT == <<"C", "T">>
Modes == {ModeT, ModeC, ModeTC, ModeCT}

\* an XYTCDataSource (or XYTCWrapper) instance with an empty cache
NewXYTC(additionalDims, sizeC) ==
    [built |-> TRUE, additionalDims |-> additionalDims, sizeC |-> sizeC,
     oldSlice |-> None, oldData |-> None]

NoXYTC ==
    [built |-> FALSE, additionalDims |-> ModeT, sizeC |-> 1,
     oldSlice |-> None, oldData |-> None]

\* XYTCDataSource.nTrueDims
nTrueDims(self) == 2 + Len(self.additionalDims)

\* the shape with the slice count divided by sizeC rounded up
XYTC_shape_rounded_up(self, n) ==
    getSliceShape \o <<(n + self.sizeC - 1) \div self.sizeC, self.sizeC>>

\* XYTCDataSource.shape over a source of n slices
XYTC_shape(self, n) == getSliceShape \o <<n \div self.sizeC, self.sizeC>>

\* np.concatenate of the cropped slices idxs along a new axis 2
Stack3(idxs, kx, ky) ==
    LET c0 == Crop(getSlice(0), kx, ky)
        sh == c0.shape \o <<Len(idxs)>>
    IN  [shape |-> sh,
         data |-> [p \in Idx3(sh) |->
                     Crop(getSlice(idxs[p[3] + 1]), kx, ky).data[<<p[1], p[2]>>]]]

\* the deinterleaving rules of 'TC' and 'CT' exchanged
InterleavedIndexExchanged(additionalDims, t, c_i, shape) ==
    IF additionalDims = ModeTC
       THEN t * shape[4] + c_i
       ELSE t + c_i * shape[3]

\* the physical slice of time index t and channel c_i in the interleaved modes
InterleavedIndex(additionalDims, t, c_i, shape) ==
    IF additionalDims = ModeTC
       THEN t + c_i * shape[3]
       ELSE t * shape[4] + c_i

\* the clamp against shape[2], the slice count divided by sizeC
ExtraExtentOfShape(self, n) == n \div self.sizeC

\* the extent the non-interleaved branch clamps the extra-axis range against
ExtraExtent(self, n) == n

\* lines 161-180 of XYTCDataSource.__getitem__: the array r, or the exception
XYTC_compute(self, nk, n) ==
    IF nTrueDims(self) <= 3 /\ self.additionalDims # ModeC
       THEN IF Len(nk) < 3
               THEN Result(Raised("IndexError"), <<>>)
               ELSE
            LET idxs == RangeSeq(SliceIndices(nk[3], ExtraExtent(self, n)))
                bad == {k \in 1..Len(idxs) : ~SourceHasSlice(n, idxs[k])}
            IN  IF bad # {}
                   THEN LET kf == CHOOSE k \in bad : \A j \in bad : k <= j
                        IN  Result(Raised("IndexOutOfRange"), SubSeq(idxs, 1, kf))
                ELSE IF Len(idxs) = 0
                   THEN Result(Raised("ValueError"), <<>>)
                ELSE Result(Returned(Some(Stack3(idxs, nk[1], nk[2]))), idxs)
    ELSE IF nTrueDims(self) = 4 \/ self.additionalDims = ModeC
       THEN IF Len(nk) < 4
               THEN Result(Raised("IndexError"), <<>>)
               ELSE
            LET shape == XYTC_shape(self, n)
                cols == RangeSeq(SliceIndices(nk[4], shape[4]))
                ts == RangeSeq(SliceIndices(nk[3], shape[3]))
                nT == Len(ts)
                idxOf(t, c) ==
                    InterleavedIndex(self.additionalDims, ts[t + 1],
                                     cols[c + 1], shape)
                \* the reads in the order issued: channel by channel
                all == [k \in 1..(Len(cols) * nT) |->
                          idxOf((k - 1) % nT, (k - 1) \div nT)]
                bad == {k \in 1..Len(all) : ~SourceHasSlice(n, all[k])}
            IN  IF Len(cols) = 0
                   THEN Result(Raised("IndexError"), <<>>)
                ELSE IF nT = 0
                   THEN Result(Raised("ValueError"), <<>>)
                ELSE IF bad # {}
                   THEN LET kf == CHOOSE k \in bad : \A j \in bad : k <= j
                        IN  Result(Raised("IndexOutOfRange"), SubSeq(all, 1, kf))
                ELSE IF Len(cols) > 1
                   THEN LET c0 == Crop(getSlice(0), nk[1], nk[2])
                            sh == c0.shape \o <<nT, Len(cols)>>
                        IN  Result(Returned(Some(
                              [shape |-> sh,
                               data |-> [p \in Idx4(sh) |->
                                   Crop(getSlice(idxOf(p[3], p[4])),
                                        nk[1], nk[2]).data[<<p[1], p[2]>>]]])),
                              all)
                ELSE Result(Returned(Some(Stack3(all, nk[1], nk[2]))), all)
    ELSE Result(Raised("UnboundLocalError"), <<>>)

\* line 150: does the normalised key list hit the single-slice cache
CacheHit(self, nk) == Some(nk) = self.oldSlice

\* the cache fields when line 183 is left out: the key is stored, the array not
CacheAfterKeyOnly(self, nk, c) == [self EXCEPT !.oldSlice = Some(nk)]

\* a read that, besides the cache fields, resets the declared channel count
CacheAfterResettingSizeC(self, nk, c) ==
    IF c.ret.status = "ok"
       THEN [self EXCEPT !.oldSlice = Some(nk), !.oldData = c.ret.val,
                         !.sizeC = 1]
       ELSE [self EXCEPT !.oldSlice = Some(nk), !.sizeC = 1]

\* the cache fields after a read of nk whose body ended with outcome c
CacheAfter(self, nk, c) ==
    IF c.ret.status = "ok"
       THEN [self EXCEPT !.oldSlice = Some(nk), !.oldData = c.ret.val]
       ELSE [self EXCEPT !.oldSlice = Some(nk)]

\* XYTCDataSource.__getitem__ on self over a source of n slices:
\* the addressor afterwards, the outcome and the physical reads
XYTC_getitem(self, keys, n) ==
    LET nk == NormalizeKeys(keys)
    IN  IF CacheHit(self, nk)
           THEN [self |-> self, ret |-> Returned(self.oldData), reads |-> <<>>]
           ELSE LET c == XYTC_compute(self, nk, n)
                IN  [self |-> CacheAfter(self, nk, c), ret |-> c.ret,
                     reads |-> c.reads]

\* ------------------------------------------------------- index specifiers
Full == SliceKey(None, None, None)

\* bare integers -1..MaxKey
IntKeys == {IntKey(k) : k \in (0 - 1)..MaxKey}

\* ranges: everything, a unit range, a stepped range, a start above its stop,
\* and a range that is empty at its start
RangeKeys ==
    {Full,
     SliceKey(Some(0), Some(1), None),
     SliceKey(Some(1), None, Some(2)),
     SliceKey(Some(MaxKey), Some(1), None),
     SliceKey(Some(1), Some(1), None)}

AxisKeys == IntKeys \cup RangeKeys

\* the X/Y crops: the whole slice, the last row, the last column
XYKeys == {<<Full, Full>>, <<IntKey(0 - 1), Full>>, <<Full, IntKey(0 - 1)>>}

\* 3- and 4-specifier index lists given to the legacy read
LegacyKeys ==
    {<<Full, Full, e>> : e \in AxisKeys}
    \cup {<<Full, Full, e, c>> :
            e \in {IntKey(0 - 1), IntKey(0), Full,
                   SliceKey(Some(1), None, Some(2)),
                   SliceKey(Some(1), Some(1), None)},
            c \in {IntKey(0 - 1), IntKey(0), Full,
                   SliceKey(Some(1), Some(1), None)}}
    \cup {<<xy[1], xy[2], Full>> : xy \in XYKeys}
    \cup {<<xy[1], xy[2], Full, Full>> : xy \in XYKeys}

\* Z/T/C specifiers given to the canonical read
CanonAxisKeys ==
    {IntKey(0 - 1), IntKey(0), IntKey(MaxKey), Full,
     SliceKey(Some(MaxKey), Some(1), None),
     SliceKey(None, None, Some(2))}

\* 5-specifier index lists, and lists of the wrong length: 3, 4, 0 and 6
CanonKeys ==
    {<<Full, Full, z, t, c>> :
        z \in CanonAxisKeys, t \in CanonAxisKeys, c \in CanonAxisKeys}
    \cup {<<xy[1], xy[2], z, t, c>> :
            xy \in XYKeys, z \in {Full, IntKey(0 - 1)},
            t \in {Full, IntKey(0 - 1)}, c \in {Full, IntKey(0 - 1)}}
    \cup {<<Full, Full, Full>>, <<Full, Full, Full, Full>>}
    \cup {<<>>, <<Full, Full, Full, Full, Full, Full>>}

\* index lists read through a freshly constructed addressor
BuildKeys ==
    {<<Full, Full, Full, Full, Full>>,
     <<Full, Full, IntKey(0), IntKey(0), IntKey(0)>>}

\* ------------------------------------------------------------- HDF spooler
\* frames the acquisator delivers and events the event log is sent
MaxFrames == 3
MaxEvents == 2

\* x in list
Contains(list, x) == \E i \in 1..Len(list) : list[i] = x

\* list.remove(x) on a list that holds x: the list without its first x
ListRemove(list, x) ==
    LET i == CHOOSE k \in 1..Len(list) :
                 list[k] = x /\ \A j \in 1..(k - 1) : list[j] # x
    IN  SubSeq(list, 1, i - 1) \o SubSeq(list, i + 1, Len(list))

\* what a method of the spooler leaves behind: the state, the exception it
\* raised ("" for none) and the methods it entered
Ran(st, exc, trace) == [st |-> st, exc |-> exc, trace |-> trace]

\* no method has been called yet
NoMethod == [exc |-> "", trace |-> <<>>]

\* the acquisator and the event log before any spooler is made, with the
\* handlers somebody else registered
Acquisition(frameHandlers, eventLoggers) ==
    [WantFrameNotification |-> frameHandlers,
     WantEventNotification |-> eventLoggers,
     frame |-> 0,
     sent |-> 0,
     alive |-> FALSE,
     self |-> None,
     call |-> NoMethod]

\* a model without a spooler
NoSpool == Acquisition(<<>>, <<>>)

\* Spooler.__init__: the file is opened with an empty ImageData array, the
\* start metadata is written, the event logger and Tick are registered
Spooler_init(st, parent) ==
    [st EXCEPT
        !.self = [parent |-> parent,
                  parentTicks |-> 0,
                  h5File |-> "open",
                  imageData |-> <<>>,
                  imNum |-> 0,
                  md |-> <<"StartTime">>,
                  evts |-> <<>>,
                  spoolOn |-> TRUE],
        !.alive = TRUE,
        !.WantEventNotification = Append(@, "evtLogger"),
        !.WantFrameNotification = Append(@, "Tick")]

\* Spooler.Tick(caller): the frame is appended to imageData, imNum is
\* incremented and the parent, if any, is ticked; appending to an array of
\* a closed file raises
Spooler_Tick(st, frame) ==
    IF st.self.h5File = "closed"
    THEN Ran(st, "ClosedNodeError", <<"Tick">>)
    ELSE Ran([st EXCEPT
                 !.self.imageData = Append(@, frame),
                 !.self.imNum = @ + 1,
                 !.self.parentTicks = IF st.self.parent THEN @ + 1 ELSE @],
             "", <<"Tick">>)

\* EventLogger.logEvent(eventName): one row appended to the Events table
EventLogger_logEvent(st, eventName) ==
    IF st.self.h5File = "closed"
    THEN Ran(st, "ClosedNodeError", <<"logEvent">>)
    ELSE Ran([st EXCEPT !.self.evts = Append(@, eventName)],
             "", <<"logEvent">>)

\* StopSpool that leaves Tick registered with the acquisator
StopSpoolKeepingTick(st) ==
    IF ~Contains(st.WantEventNotification, "evtLogger")
    THEN Ran(st, "ValueError", <<"StopSpool">>)
    ELSE Ran([st EXCEPT
                 !.WantEventNotification = ListRemove(@, "evtLogger"),
                 !.self.md = Append(@, "EndTime"),
                 !.self.h5File = "closed",
                 !.self.spoolOn = FALSE],
             "", <<"StopSpool">>)

\* Spooler.StopSpool(): Tick and the event logger are removed from their
\* lists (list.remove raises ValueError for a handler that is not there),
\* the stop metadata is written, the file is closed, spoolOn is cleared
Spooler_StopSpool(st) ==
    IF ~Contains(st.WantFrameNotification, "Tick")
    THEN Ran(st, "ValueError", <<"StopSpool">>)
    ELSE LET a == [st EXCEPT !.WantFrameNotification = ListRemove(@, "Tick")]
         IN  IF ~Contains(a.WantEventNotification, "evtLogger")
             THEN Ran(a, "ValueError", <<"StopSpool">>)
             ELSE Ran([a EXCEPT
                          !.WantEventNotification =
                              ListRemove(@, "evtLogger"),
                          !.self.md = Append(@, "EndTime"),
                          !.self.h5File = "closed",
                          !.self.spoolOn = FALSE],
                      "", <<"StopSpool">>)

\* Spooler.__del__(): StopSpool when spoolOn is set (an exception raised in
\* __del__ is reported and dropped)
Spooler_del(st) ==
    IF st.self.spoolOn
    THEN LET r == Spooler_StopSpool(st)
         IN  Ran(r.st, r.exc, <<"__del__">> \o r.trace)
    ELSE Ran(st, "", <<"__del__">>)

\* ----------------------------------------------------------------- actions
Callers == {1, 2}
IdleThread == [pc |-> "idle", keys |-> <<>>, ret |-> NoCall]
NoThreads == [t \in Callers |-> IdleThread]

\* the state shared by every initial condition: nobody has called anything
Quiet ==
    /\ pc = "idle"
    /\ target = ""
    /\ lastKeys = <<>>
    /\ ret = NoCall
    /\ reads = <<>>
    /\ thr = NoThreads

\* a legacy source of MaxSlices - 1 or MaxSlices slices, in any extra-axis
\* mode and with any declared channel count, its cache empty
Init ==
    /\ numSlices \in {MaxSlices - 1, MaxSlices}
    /\ legacy \in {NewXYTC(m, c) : m \in Modes, c \in 1..MaxSizeC}
    /\ source = BaseSource
    /\ canon = NoCanon
    /\ flat = NoXYTC
    /\ spool = NoSpool
    /\ Quiet

\* a legacy source as in Init, or one long enough for auto_promote to take
\* it for a time series
InitWrap ==
    /\ numSlices \in {MaxSlices - 1, MaxSlices, PromoteThreshold + 1}
    /\ legacy \in {NewXYTC(m, c) : m \in Modes, c \in 1..MaxSizeC}
    /\ source = BaseSource
    /\ canon = NoCanon
    /\ flat = NoXYTC
    /\ spool = NoSpool
    /\ Quiet

\* a canonical addressor constructed with a supported tag and declared sizes
\* over a source that holds the declared number of slices, or one fewer
\* (the constructor reads the element type off slice 0, so there is one)
InitCanon ==
    /\ \E o \in OrderTags, sz \in 1..MaxSize, st \in 1..MaxSize,
          sc \in 1..MaxSize, short \in {0, 1} :
          /\ numSlices = sz * st * sc - short
          /\ numSlices >= 1
          /\ canon = NewCanon(o, sz, st, sc)
    /\ source = BaseSource
    /\ legacy = NewXYTC(ModeT, 1)
    /\ flat = NoXYTC
    /\ spool = NoSpool
    /\ Quiet

\* legacy[keys] by the sequential caller
LegacyRead(keys) ==
    /\ pc = "idle"
    /\ \E r \in {XYTC_getitem(legacy, keys, numSlices)} :
          /\ legacy' = r.self
          /\ ret' = r.ret
          /\ reads' = r.reads
    /\ pc' = "returned"
    /\ target' = "legacy"
    /\ lastKeys' = keys
    /\ UNCHANGED <<spool, numSlices, source, canon, flat, thr>>

\* canon[keys] by the sequential caller
CanonRead(keys) ==
    /\ pc = "idle"
    /\ canon.built
    /\ \E r \in {XYZTC_getitem(canon, keys, numSlices)} :
          /\ ret' = r.ret
          /\ reads' = r.reads
    /\ pc' = "returned"
    /\ target' = "canon"
    /\ lastKeys' = keys
    /\ UNCHANGED <<spool, numSlices, source, legacy, canon, flat, thr>>

\* the caller takes the outcome and is ready for its next call
CallerReturn ==
    /\ pc = "returned"
    /\ pc' = "idle"
    /\ target' = ""
    /\ lastKeys' = <<>>
    /\ ret' = NoCall
    /\ reads' = <<>>
    /\ UNCHANGED <<spool, numSlices, source, legacy, canon, flat, thr>>

\* the caller repeats the request it just made (a display refresh): the same
\* normalised index list, straight after the previous read
LegacyReread(keys) ==
    /\ pc = "returned"
    /\ target = "legacy"
    /\ NormalizeKeys(keys) = NormalizeKeys(lastKeys)
    /\ \E r \in {XYTC_getitem(legacy, keys, numSlices)} :
          /\ legacy' = r.self
          /\ ret' = r.ret
          /\ reads' = r.reads
    /\ lastKeys' = keys
    /\ UNCHANGED <<spool, numSlices, source, canon, flat, thr, pc, target>>

\* ------------------------------------------------- concurrent legacy reads
\* index lists the concurrent callers use: none of them makes the read raise
ConcKeys ==
    {<<Full, Full, IntKey(0), IntKey(0)>>,
     <<Full, Full, IntKey(0 - 1), IntKey(0)>>,
     <<Full, Full, Full, IntKey(0 - 1)>>}

SetThr(t, p, k, r) == [thr EXCEPT ![t] = [pc |-> p, keys |-> k, ret |-> r]]

\* lines 141-149: caller t enters legacy[keys] and normalises its index list
T_Call(t, keys) ==
    /\ thr[t].pc = "idle"
    /\ thr' = SetThr(t, "check", NormalizeKeys(keys), NoCall)
    /\ UNCHANGED <<spool, numSlices, source, legacy, canon, flat, pc, target,
                   lastKeys, ret, reads>>

\* line 150: compare the index list with the cached one
T_Check(t) ==
    /\ thr[t].pc = "check"
    /\ thr' = SetThr(t, IF CacheHit(legacy, thr[t].keys) THEN "hit" ELSE "miss",
                     thr[t].keys, NoCall)
    /\ UNCHANGED <<spool, numSlices, source, legacy, canon, flat, pc, target,
                   lastKeys, ret, reads>>

\* line 151: return self.oldData
T_ReturnCached(t) ==
    /\ thr[t].pc = "hit"
    /\ thr' = SetThr(t, "done", thr[t].keys, Returned(legacy.oldData))
    /\ UNCHANGED <<spool, numSlices, source, legacy, canon, flat, pc, target,
                   lastKeys, ret, reads>>

\* line 152: self.oldSlice = keys
T_SetKey(t) ==
    /\ thr[t].pc = "miss"
    /\ legacy' = [legacy EXCEPT !.oldSlice = Some(thr[t].keys)]
    /\ thr' = SetThr(t, "body", thr[t].keys, NoCall)
    /\ UNCHANGED <<spool, numSlices, source, canon, flat, pc, target, lastKeys, ret,
                   reads>>

\* lines 161-185: read the slices, then self.oldData = r and return r
T_Store(t) ==
    /\ thr[t].pc = "body"
    /\ LET c == XYTC_compute(legacy, thr[t].keys, numSlices)
       IN  /\ legacy' = IF c.ret.status = "ok"
                           THEN [legacy EXCEPT !.oldData = c.ret.val]
                           ELSE legacy
           /\ thr' = SetThr(t, "done", thr[t].keys, c.ret)
    /\ UNCHANGED <<spool, numSlices, source, canon, flat, pc, target, lastKeys, ret,
                   reads>>

\* caller t takes its result and is ready for its next call
T_Done(t) ==
    /\ thr[t].pc = "done"
    /\ thr' = [thr EXCEPT ![t] = IdleThread]
    /\ UNCHANGED <<spool, numSlices, source, legacy, canon, flat, pc, target,
                   lastKeys, ret, reads>>

NextConc ==
    \/ \E t \in Callers, keys \in ConcKeys : T_Call(t, keys)
    \/ \E t \in Callers : T_Check(t)
    \/ \E t \in Callers : T_ReturnCached(t)
    \/ \E t \in Callers : T_SetKey(t)
    \/ \E t \in Callers : T_Store(t)
    \/ \E t \in Callers : T_Done(t)

\* ------------------------------------------------------------------ wrappers
\* auto_promote taking a series of exactly PromoteThreshold frames for a
\* time series
AutoPromoteAtThreshold(additionalDims, shape) ==
    IF additionalDims = ModeCT
       THEN [input_order |-> "XYZCT", size_z |-> 1, size_t |-> shape[3],
             size_c |-> shape[4]]
       ELSE IF shape[3] >= PromoteThreshold
               THEN [input_order |-> "XYZTC", size_z |-> 1,
                     size_t |-> shape[3], size_c |-> shape[4]]
               ELSE [input_order |-> "XYZTC", size_z |-> shape[3],
                     size_t |-> 1, size_c |-> shape[4]]

\* auto_promote declaring one index more than shape[2], to take in the
\* remainder of a slice count that sizeC does not divide
AutoPromoteWithRemainder(additionalDims, shape) ==
    IF additionalDims = ModeCT
       THEN [input_order |-> "XYZCT", size_z |-> 1, size_t |-> shape[3] + 1,
             size_c |-> shape[4]]
       ELSE IF shape[3] > PromoteThreshold
               THEN [input_order |-> "XYZTC", size_z |-> 1,
                     size_t |-> shape[3] + 1, size_c |-> shape[4]]
               ELSE [input_order |-> "XYZTC", size_z |-> shape[3] + 1,
                     size_t |-> 1, size_c |-> shape[4]]

\* XYZTCWrapper.auto_promote(data): the tag and sizes it constructs with
AutoPromote(additionalDims, shape) ==
    IF additionalDims = ModeCT
       THEN [input_order |-> "XYZCT", size_z |-> 1, size_t |-> shape[3],
             size_c |-> shape[4]]
       ELSE IF shape[3] > PromoteThreshold
               THEN [input_order |-> "XYZTC", size_z |-> 1,
                     size_t |-> shape[3], size_c |-> shape[4]]
               ELSE [input_order |-> "XYZTC", size_z |-> shape[3],
                     size_t |-> 1, size_c |-> shape[4]]

\* XYTCWrapper.__init__(datasource): sizeC from the canonical channel axis,
\* the extra axis marked 'TC', the class's empty cache
XYTCWrapper_init(datasource) == NewXYTC(ModeTC, datasource.shape[5])

\* index lists read through the wrappers
WrapKeys ==
    {<<Full, Full, e>> : e \in {Full, IntKey(0), IntKey(0 - 1)}}
    \cup {<<Full, Full, e, c>> :
            e \in {Full, IntKey(0), IntKey(0 - 1)},
            c \in {Full, IntKey(0), IntKey(0 - 1)}}
    \cup {<<IntKey(0 - 1), Full, Full, Full>>}

\* canon = XYZTCWrapper.auto_promote(legacy)
Promote ==
    /\ pc = "idle"
    /\ ~canon.built
    /\ numSlices >= 1
    /\ LET a == AutoPromote(legacy.additionalDims, XYTC_shape(legacy, numSlices))
       IN  canon' = NewCanon(a.input_order, a.size_z, a.size_t, a.size_c)
    /\ UNCHANGED <<spool, numSlices, source, legacy, flat, pc, target, lastKeys, ret,
                   reads, thr>>

\* flat = XYTCWrapper(canon)
Flatten ==
    /\ pc = "idle"
    /\ canon.built
    /\ ~flat.built
    /\ flat' = XYTCWrapper_init(canon)
    /\ UNCHANGED <<spool, numSlices, source, legacy, canon, pc, target, lastKeys,
                   ret, reads, thr>>

\* flat[keys]: the legacy read of the wrapper; its slices and its slice count
\* come from the wrapped source
FlatRead(keys) ==
    /\ pc = "idle"
    /\ flat.built
    /\ \E r \in {XYTC_getitem(flat, keys, numSlices)} :
          /\ flat' = r.self
          /\ ret' = r.ret
          /\ reads' = r.reads
    /\ pc' = "returned"
    /\ target' = "flat"
    /\ lastKeys' = keys
    /\ UNCHANGED <<spool, numSlices, source, legacy, canon, thr>>

\* index lists read through a wrapper over a constructed addressor: one
\* channel at a time, and all channels
FlatKeys ==
    {<<Full, Full, Full, IntKey(c)>> : c \in 0..(MaxSize - 1)}
    \cup {<<Full, Full, Full, Full>>}

NextFlat ==
    \/ Flatten
    \/ \E keys \in FlatKeys : FlatRead(keys)
    \/ CallerReturn

\* index lists read through a promoted addressor: on each of Z, T and C
\* everything, the last index, an index beyond the axis, every other index
PromotedKeys ==
    {<<Full, Full, z, t, c>> :
        z \in {Full, IntKey(0 - 1), IntKey(MaxKey),
               SliceKey(None, None, Some(2))},
        t \in {Full, IntKey(0 - 1), IntKey(MaxKey),
               SliceKey(None, None, Some(2))},
        c \in {Full, IntKey(0 - 1), IntKey(MaxKey),
               SliceKey(None, None, Some(2))}}

\* index lists read through the legacy source itself: the same choices on
\* the extra axis, with and without a channel specifier
PromotedLegacyKeys ==
    {<<Full, Full, e>> :
        e \in {Full, IntKey(0 - 1), IntKey(MaxKey),
               SliceKey(Some(1), None, Some(2))}}
    \cup {<<Full, Full, e, c>> :
            e \in {Full, IntKey(0 - 1), IntKey(MaxKey),
                   SliceKey(Some(1), None, Some(2))},
            c \in {Full, IntKey(0 - 1), IntKey(MaxKey)}}

\* a legacy source read directly and through its promoted addressor
NextPromoted ==
    \/ \E keys \in PromotedLegacyKeys : LegacyRead(keys)
    \/ Promote
    \/ \E keys \in PromotedKeys : CanonRead(keys)
    \/ CallerReturn

NextWrap ==
    \/ Promote
    \/ Flatten
    \/ \E keys \in WrapKeys : FlatRead(keys)
    \/ CallerReturn

Next ==
    \/ \E keys \in LegacyKeys : LegacyRead(keys)
    \/ \E keys \in LegacyKeys : LegacyReread(keys)
    \/ CallerReturn

NextCanon ==
    \/ \E keys \in CanonKeys : CanonRead(keys)
    \/ CallerReturn

\* --------------------------------------------------------- metadata queries
\* a query: its name, and the slice index for getSlice
Query(q, i) == [q |-> q, i |-> i]

Queries ==
    {Query("getSlice", i) : i \in {0, MaxSlices}}
    \cup {Query(q, 0) : q \in {"getSliceShape", "getNumSlices", "getEvents",
                               "is_complete"}}

\* what the slice source behind the legacy addressor yields for a query
Source_query(src, n, q) ==
    CASE q.q = "getSlice" ->
            IF SourceHasSlice(n, q.i)
               THEN Result(Returned(Some(getSlice(q.i))), <<q.i>>)
               ELSE Result(Raised("IndexOutOfRange"), <<q.i>>)
      [] q.q = "getSliceShape" -> Result(Returned(Some(getSliceShape)), <<>>)
      [] q.q = "getNumSlices" -> Result(Returned(Some(n)), <<>>)
      [] q.q = "getEvents" -> Result(Returned(Some(src.events)), <<>>)
      [] q.q = "is_complete" -> Result(Returned(Some(src.complete)), <<>>)

\* the attribute is_complete of the legacy source: the flag itself when the
\* class exposes it as a property, a bound method otherwise
Source_is_complete(src) ==
    [callable |-> ~src.is_complete_property, value |-> src.complete]

\* python's attr(): a bound method returns its value, a bool is not callable
CallAttr(attr) ==
    IF attr.callable THEN Returned(Some(attr.value)) ELSE Raised("TypeError")

\* XYZTCWrapper.getSlice, getSliceShape, getNumSlices, getEvents, is_complete
XYZTCWrapper_query(src, n, q) ==
    IF q.q = "is_complete"
       THEN Result(CallAttr(Source_is_complete(src)), <<>>)
       ELSE Source_query(src, n, q)

\* XYTCWrapper.getSlice, getSliceShape, getNumSlices, getEvents, is_complete
\* over an XYZTCWrapper: its is_complete is a property, so the attribute is
\* the flag (or the property's exception)
XYTCWrapper_query(src, n, q) ==
    LET inner == XYZTCWrapper_query(src, n, q)
    IN  IF q.q = "is_complete" /\ inner.ret.status = "ok"
           THEN Result(CallAttr([callable |-> FALSE,
                                 value |-> inner.ret.val[1]]), <<>>)
           ELSE inner

\* slice sources: with or without events, complete or still spooling,
\* is_complete a property (BaseDataSource) or a method
Sources ==
    [events : {<<>>, <<"StartAq">>}, complete : BOOLEAN,
     is_complete_property : BOOLEAN]

\* the class attributes a legacy source that declares nothing inherits
DefaultSizeC == 1
XYTCDataSource == NewXYTC(ModeT, DefaultSizeC)

\* a legacy source of any kind, short or at the auto_promote threshold
InitQuery ==
    /\ numSlices \in {MaxSlices - 1, MaxSlices, PromoteThreshold,
                      PromoteThreshold + 1}
    /\ source \in Sources
    /\ legacy \in {XYTCDataSource}
                  \cup {NewXYTC(m, c) : m \in Modes, c \in 1..MaxSizeC}
    /\ canon = NoCanon
    /\ flat = NoXYTC
    /\ spool = NoSpool
    /\ Quiet

\* the acquisition appends one slice to a source that is still spooling
AppendSlice ==
    /\ pc = "idle"
    /\ ~source.complete
    /\ numSlices < MaxSlices
    /\ numSlices' = numSlices + 1
    /\ UNCHANGED <<spool, source, legacy, canon, flat, pc, target, lastKeys, ret,
                   reads, thr>>

\* legacy.shape
LegacyShape ==
    /\ pc = "idle"
    /\ ret' = Returned(Some(XYTC_shape(legacy, numSlices)))
    /\ reads' = <<>>
    /\ pc' = "returned"
    /\ target' = "legacy.shape"
    /\ lastKeys' = <<>>
    /\ UNCHANGED <<spool, numSlices, source, legacy, canon, flat, thr>>

\* a shape recomputed from the slice count of the moment, as the legacy
\* shape is
XYZTCWrapper_shape_live(self, n) ==
    getSliceShape \o <<n \div self.shape[5], 1, self.shape[5]>>

\* XYZTCWrapper.shape: the tuple stored by the constructor
XYZTCWrapper_shape(self, n) == self.shape

\* canon.shape
CanonShape ==
    /\ pc = "idle"
    /\ canon.built
    /\ ret' = Returned(Some(XYZTCWrapper_shape(canon, numSlices)))
    /\ reads' = <<>>
    /\ pc' = "returned"
    /\ target' = "canon.shape"
    /\ lastKeys' = <<>>
    /\ UNCHANGED <<spool, numSlices, source, legacy, canon, flat, thr>>

\* a query on canon, the XYZTCWrapper over the legacy source
CanonQuery(q) ==
    /\ pc = "idle"
    /\ canon.built
    /\ \E r \in {XYZTCWrapper_query(source, numSlices, q)} :
          /\ ret' = r.ret
          /\ reads' = r.reads
    /\ pc' = "returned"
    /\ target' = "canon.query"
    /\ lastKeys' = <<q>>
    /\ UNCHANGED <<spool, numSlices, source, legacy, canon, flat, thr>>

\* a query on flat, the XYTCWrapper over canon
FlatQuery(q) ==
    /\ pc = "idle"
    /\ flat.built
    /\ \E r \in {XYTCWrapper_query(source, numSlices, q)} :
          /\ ret' = r.ret
          /\ reads' = r.reads
    /\ pc' = "returned"
    /\ target' = "flat.query"
    /\ lastKeys' = <<q>>
    /\ UNCHANGED <<spool, numSlices, source, legacy, canon, flat, thr>>

NextQuery ==
    \/ AppendSlice
    \/ Promote
    \/ Flatten
    \/ LegacyShape
    \/ CanonShape
    \/ \E keys \in BuildKeys : CanonRead(keys)
    \/ \E q \in Queries : CanonQuery(q)
    \/ \E q \in Queries : FlatQuery(q)
    \/ CallerReturn

\* ------------------------------------------------------------ construction
\* the arguments of a constructor call
CtorArgs(input_order, size_z, size_t, size_c) ==
    [input_order |-> input_order, size_z |-> size_z, size_t |-> size_t,
     size_c |-> size_c]

\* a legacy source in any extra-axis mode, no canonical addressor yet
InitBuild ==
    /\ numSlices \in {MaxSlices - 1, MaxSlices}
    /\ source = BaseSource
    /\ legacy \in {NewXYTC(m, c) : m \in Modes, c \in 1..MaxSizeC}
    /\ canon = NoCanon
    /\ flat = NoXYTC
    /\ spool = NoSpool
    /\ Quiet

\* canon = XYZTCWrapper(legacy, input_order, size_z, size_t, size_c): the
\* checks of XYZTCDataSource.__init__, then the shape, then the element type
\* read off slice 0
Construct(input_order, size_z, size_t, size_c) ==
    /\ pc = "idle"
    /\ ~canon.built
    /\ numSlices >= 1
    /\ IF InitError(input_order) = ""
          THEN /\ canon' = NewCanon(input_order, size_z, size_t, size_c)
               /\ ret' = Returned(None)
               /\ reads' = <<0>>
          ELSE /\ canon' = canon
               /\ ret' = Raised(InitError(input_order))
               /\ reads' = <<>>
    /\ pc' = "returned"
    /\ target' = "construct"
    /\ lastKeys' = <<CtorArgs(input_order, size_z, size_t, size_c)>>
    /\ UNCHANGED <<spool, numSlices, source, legacy, flat, thr>>

\* index lists read through the legacy source next to it
BuildLegacyKeys ==
    {<<Full, Full, Full>>, <<Full, Full, IntKey(0), IntKey(0)>>}

NextBuild ==
    \/ \E o \in OrderTags \cup OtherTags, sz \in 1..MaxSize,
          st \in 1..MaxSize, sc \in 1..MaxSize : Construct(o, sz, st, sc)
    \/ \E keys \in BuildKeys : CanonRead(keys)
    \/ \E keys \in BuildLegacyKeys : LegacyRead(keys)
    \/ CallerReturn

Spec == Init /\ [][Next]_vars

SpecCanon == InitCanon /\ [][NextCanon]_vars

SpecConc == Init /\ [][NextConc]_vars

SpecWrap == InitWrap /\ [][NextWrap]_vars

SpecFlat == InitCanon /\ [][NextFlat]_vars

SpecPromoted == Init /\ [][NextPromoted]_vars

SpecQuery == InitQuery /\ [][NextQuery]_vars

SpecBuild == InitBuild /\ [][NextBuild]_vars

\* ------------------------------------------------------ HDF spooler steps
\* handlers and loggers registered by somebody else before the spooler
FrameHandlerLists == {<<>>, <<"display">>}
EventLoggerLists == {<<>>, <<"console">>}

\* a spooler just constructed, with or without a parent, on an acquisator
\* and an event log that may already have other listeners
InitSpool ==
    /\ \E fh \in FrameHandlerLists, el \in EventLoggerLists,
          parent \in BOOLEAN :
          spool = Spooler_init(Acquisition(fh, el), parent)
    /\ numSlices = MaxSlices
    /\ source = BaseSource
    /\ legacy = XYTCDataSource
    /\ canon = NoCanon
    /\ flat = NoXYTC
    /\ Quiet

\* the acquisator has a new frame and calls every handler of
\* WantFrameNotification; Tick is the spooler's
FrameNotification ==
    /\ spool.frame < MaxFrames
    /\ \E r \in {IF Contains(spool.WantFrameNotification, "Tick")
                 THEN Spooler_Tick(spool, spool.frame)
                 ELSE Ran(spool, "", <<>>)} :
          spool' = [r.st EXCEPT !.frame = @ + 1,
                                !.call = [exc |-> r.exc, trace |-> r.trace]]
    /\ UNCHANGED <<numSlices, source, legacy, canon, flat, pc, target, lastKeys,
                   ret, reads, thr>>

\* the event log is sent an event and calls logEvent of every logger of
\* WantEventNotification; evtLogger is the spooler's
LogEvent(eventName) ==
    /\ spool.sent < MaxEvents
    /\ \E r \in {IF Contains(spool.WantEventNotification, "evtLogger")
                 THEN EventLogger_logEvent(spool, eventName)
                 ELSE Ran(spool, "", <<>>)} :
          spool' = [r.st EXCEPT !.sent = @ + 1,
                                !.call = [exc |-> r.exc, trace |-> r.trace]]
    /\ UNCHANGED <<numSlices, source, legacy, canon, flat, pc, target, lastKeys,
                   ret, reads, thr>>

\* somebody who holds the spooler calls StopSpool()
StopSpool ==
    /\ spool.alive
    /\ \E r \in {Spooler_StopSpool(spool)} :
          spool' = [r.st EXCEPT !.call = [exc |-> r.exc, trace |-> r.trace]]
    /\ UNCHANGED <<numSlices, source, legacy, canon, flat, pc, target, lastKeys,
                   ret, reads, thr>>

\* the spooler is finalised: __del__ runs and the object is gone
Del ==
    /\ spool.alive
    /\ \E r \in {Spooler_del(spool)} :
          spool' = [r.st EXCEPT !.alive = FALSE,
                                !.call = [exc |-> r.exc, trace |-> r.trace]]
    /\ UNCHANGED <<numSlices, source, legacy, canon, flat, pc, target, lastKeys,
                   ret, reads, thr>>

EventNames == {"ProtocolFocus", "StartAq"}

NextSpool ==
    \/ FrameNotification
    \/ \E e \in EventNames : LogEvent(e)
    \/ StopSpool
    \/ Del

SpecSpool == InitSpool /\ [][NextSpool]_vars

\* ================================================================== claims
\* the declared sizes of the canonical addressor
sizeZ == canon.shape[3]
sizeT == canon.shape[4]
sizeC5 == canon.shape[5]

\* the slice index the addressor's strides give (z, t, c)
StrideIndex(z, t, c) ==
    z * canon.z_stride + t * canon.t_stride + c * canon.c_stride

ZTC == (0..(sizeZ - 1)) \X (0..(sizeT - 1)) \X (0..(sizeC5 - 1))

\* C1: for every supported tag and all declared sizes, (z,t,c) -> z*zStride +
\* t*tStride + c*cStride is a bijection from the declared coordinates onto
\* [0, sizeZ*sizeT*sizeC).
C1_StrideMapBijective ==
    canon.built =>
        /\ \A p \in ZTC, q \in ZTC :
              StrideIndex(p[1], p[2], p[3]) = StrideIndex(q[1], q[2], q[3])
                 => p = q
        /\ {StrideIndex(p[1], p[2], p[3]) : p \in ZTC}
              = 0..(sizeZ * sizeT * sizeC5 - 1)

C1_Witness ==
    /\ canon.built
    /\ canon.input_order = "XYCZT"
    /\ sizeZ = MaxSize /\ sizeT = 1 /\ sizeC5 = MaxSize
    /\ pc = "returned" /\ ret.status = "ok"

IsFullRead == lastKeys = <<Full, Full, Full, Full, Full>>

\* C2: over a source of sizeZ*sizeT*sizeC marker slices, a read of the full
\* range of all five axes completes and the output cell (z, c, t) holds the
\* marker z*zStride + t*tStride + c*cStride.
C2_FullReadPlacesMarkers ==
    (/\ pc = "returned" /\ target = "canon" /\ IsFullRead
     /\ numSlices = sizeZ * sizeT * sizeC5)
    => /\ ret.status = "ok"
       /\ \A x \in 0..(SliceW - 1), y \in 0..(SliceH - 1), p \in ZTC :
             LET cell == <<x, y, p[1], p[3], p[2]>>
             IN  /\ cell \in DOMAIN ret.val[1].data
                 /\ ret.val[1].data[cell]
                       = <<StrideIndex(p[1], p[2], p[3]), x, y>>

\* the number of indices specifier i of the last call enumerates on an axis
\* of extent n
KeyCount(i, n) == RangeLen(SliceIndices(NormalizeKey(lastKeys[i]), n))

\* the extent _slice_len gives the range of specifier i on an axis of extent n
KeyExtent(i, n) == slice_len(SliceIndices(NormalizeKey(lastKeys[i]), n))

\* C3: a canonical read returns an array of shape (|X|, |Y|, |Z|, |C|, |T|),
\* channel before time.
C3_OutputShapeChannelBeforeTime ==
    (/\ pc = "returned" /\ target = "canon" /\ Len(lastKeys) = 5
     /\ ret.status = "ok")
    => ret.val[1].shape
          = <<KeyExtent(1, SliceW), KeyExtent(2, SliceH), KeyExtent(3, sizeZ),
              KeyExtent(5, sizeC5), KeyExtent(4, sizeT)>>

\* the axes a tag lists after 'XY', fastest varying first
TagAxes(order) ==
    CASE order = "XYZTC" -> <<"Z", "T", "C">>
      [] order = "XYTZC" -> <<"T", "Z", "C">>
      [] order = "XYZCT" -> <<"Z", "C", "T">>
      [] order = "XYTCZ" -> <<"T", "C", "Z">>
      [] order = "XYCZT" -> <<"C", "Z", "T">>
      [] order = "XYCTZ" -> <<"C", "T", "Z">>

DeclaredSize(axis) ==
    CASE axis = "Z" -> sizeZ [] axis = "T" -> sizeT [] axis = "C" -> sizeC5

\* the stride the tag order prescribes for an axis: the product of the
\* declared sizes of the axes listed before it
TagStride(axis) ==
    LET ax == TagAxes(canon.input_order)
        pos == CHOOSE i \in 1..3 : ax[i] = axis
    IN  IF pos = 1 THEN 1
        ELSE IF pos = 2 THEN DeclaredSize(ax[1])
        ELSE DeclaredSize(ax[1]) * DeclaredSize(ax[2])

\* the index a bare integer specifier selects on an axis of extent n
BareIndex(k, n) == IF k.start[1] = 0 - 1 THEN n - 1 ELSE k.start[1]

IsSingleRead ==
    /\ pc = "returned" /\ target = "canon" /\ Len(lastKeys) = 5
    /\ \A i \in 3..5 :
          /\ lastKeys[i].bare
          /\ BareIndex(lastKeys[i], canon.shape[i]) \in 0..(canon.shape[i] - 1)

\* C4: the strides follow the tag order (first listed axis 1, later axes the
\* product of the sizes listed before them), and a read of a single (z,t,c)
\* asks the source for exactly the slice z*zStride + t*tStride + c*cStride.
C4_StridesFollowTagAndSingleRead ==
    /\ canon.built =>
          /\ canon.z_stride = TagStride("Z")
          /\ canon.t_stride = TagStride("T")
          /\ canon.c_stride = TagStride("C")
    /\ IsSingleRead =>
          reads = << BareIndex(lastKeys[3], sizeZ) * TagStride("Z")
                     + BareIndex(lastKeys[4], sizeT) * TagStride("T")
                     + BareIndex(lastKeys[5], sizeC5) * TagStride("C") >>

C4_Witness ==
    /\ IsSingleRead
    /\ canon.input_order = "XYTCZ"
    /\ sizeZ = MaxSize /\ sizeT = MaxSize /\ sizeC5 = MaxSize
    /\ lastKeys[3] = IntKey(0 - 1) /\ lastKeys[4] = IntKey(0)
    /\ lastKeys[5] = IntKey(0 - 1)
    /\ ret.status = "ok"

\* the extent of axis i of the legacy addressor
LegacyExtent(i) == XYTC_shape(legacy, numSlices)[i]

\* the extent the legacy read clamps the range of axis i against
LegacyClampExtent(i) ==
    IF i = 3 /\ nTrueDims(legacy) <= 3 /\ legacy.additionalDims # ModeC
       THEN ExtraExtent(legacy, numSlices)
       ELSE LegacyExtent(i)

\* C5: a read whose range on some axis is empty after clamping against the
\* axis extent returns an empty array with extent 0 on that axis and raises
\* nothing (stated for the legacy model).
C5_EmptyRangeReturnsEmptyArray ==
    (pc = "returned" /\ target = "legacy") =>
        \A i \in 1..Len(lastKeys) :
            KeyCount(i, LegacyClampExtent(i)) = 0
               => /\ ret.status = "ok"
                  /\ ret.val # None
                  /\ ret.val[1].shape[i] = 0

\* what lines 161-180 compute for the index list of the last call
ComputedForLastKeys ==
    XYTC_compute(legacy, NormalizeKeys(lastKeys), numSlices).ret

\* C6: a legacy read never returns the array cached for another index
\* specification: the array returned for K is the array computed for K.
C6_ReadReturnsArrayOfItsKeys ==
    (/\ pc = "returned" /\ target = "legacy"
     /\ ret.status = "ok" /\ ret.val # None)
    => ret = ComputedForLastKeys

\* C7: a legacy read that returned, immediately followed by a read with the
\* same normalised index list, makes the second read issue no physical read
\* and return the same array.
C7_RepeatedReadServedFromCache ==
    [][(/\ pc = "returned" /\ pc' = "returned" /\ target = "legacy"
        /\ ret.status = "ok")
       => (reads' = <<>> /\ ret' = ret)]_vars

\* a repeat served from the cache: the range [0,1) after the bare integer 0
C7_Witness ==
    /\ pc = "returned" /\ target = "legacy"
    /\ lastKeys = <<Full, Full, SliceKey(Some(0), Some(1), None)>>
    /\ reads = <<>>
    /\ ret.status = "ok" /\ ret.val # None
    /\ ret = ComputedForLastKeys

\* C10: a read with the bare integer -1 at axis i returns what the read with
\* the bare integer shape[i] - 1 at axis i returns (stated for the legacy
\* model).
C10_MinusOneIsLastIndex ==
    (pc = "returned" /\ target = "legacy") =>
        \A i \in 1..Len(lastKeys) :
            lastKeys[i] = IntKey(0 - 1) =>
                ComputedForLastKeys
                   = XYTC_compute(legacy,
                        NormalizeKeys([lastKeys EXCEPT
                            ![i] = IntKey(LegacyExtent(i) - 1)]),
                        numSlices).ret

\* C8: with several callers reading concurrently, no read returns an array
\* (or an absent value) that belongs to another index specification than
\* the one it asked for.
C8_ConcurrentReadReturnsOwnArray ==
    \A t \in Callers :
        (thr[t].pc = "done" /\ thr[t].ret.status = "ok")
        => thr[t].ret = XYTC_compute(legacy, thr[t].keys, numSlices).ret

\* C9: a read through XYTCWrapper(XYZTCWrapper.auto_promote(L)) returns, for
\* every index specification L accepts, the array L's own read returns.
C9_PromoteFlattenRoundTrip ==
    (/\ pc = "returned" /\ target = "flat"
     /\ (ret.status = "raise" \/ reads # <<>>)
     /\ ComputedForLastKeys.status = "ok")
    => ret = ComputedForLastKeys

\* a Z/T/C specifier that reaches beyond the declared extent n of its axis
BeyondExtent(e, n) ==
    IF e.bare
       THEN e.start[1] >= n
       ELSE \/ (e.start # None /\ e.start[1] >= n)
            \/ (e.stop # None /\ e.stop[1] > n)

\* C11: a canonical read with a Z, T or C specifier beyond the declared size
\* of its axis raises nothing: it completes, with the extent of every such
\* axis the number of indices left after clamping (stated for step-less
\* specifiers with equally many time and channel indices, over a source that
\* holds every declared slice).
C11_OutOfBoundsRangeIsClamped ==
    (/\ pc = "returned" /\ target = "canon" /\ Len(lastKeys) = 5
     /\ numSlices = sizeZ * sizeT * sizeC5
     /\ \A i \in 3..5 : lastKeys[i].step = None
     /\ KeyCount(4, sizeT) = KeyCount(5, sizeC5)
     /\ \E i \in 3..5 : BeyondExtent(lastKeys[i], canon.shape[i]))
    => /\ ret.status = "ok"
       /\ ret.val[1].shape[3] = KeyCount(3, sizeZ)
       /\ ret.val[1].shape[4] = KeyCount(5, sizeC5)
       /\ ret.val[1].shape[5] = KeyCount(4, sizeT)

\* C12: a legacy read given 3 index specifiers (X, Y, extra) whose ranges
\* are all non-empty returns an array, in every extra-axis mode.
C12_ThreeSpecifiersAccepted ==
    (/\ pc = "returned" /\ target = "legacy" /\ Len(lastKeys) = 3
     /\ \A i \in 1..3 : KeyCount(i, LegacyExtent(i)) > 0)
    => /\ ret.status = "ok"
       /\ ret.val # None

\* what the source a wrapper wraps yields for the query of the last call:
\* the slice source for canon, canon for flat
WrappedYields ==
    IF target = "canon.query"
       THEN Source_query(source, numSlices, lastKeys[1])
       ELSE XYZTCWrapper_query(source, numSlices, lastKeys[1])

\* C13: getSlice(i), getSliceShape(), getNumSlices(), getEvents() and
\* is_complete of either wrapper yield exactly what the wrapped source
\* yields for the same query, however the wrapped source exposes is_complete.
C13_WrappersDelegate ==
    (pc = "returned" /\ target \in {"canon.query", "flat.query"})
    => Result(ret, reads) = WrappedYields

\* C14: the shape a legacy addressor reports is (sliceWidth, sliceHeight, q,
\* sizeC) with q the integer quotient of the current slice count by sizeC
\* (q*sizeC <= numSlices < (q+1)*sizeC), whether or not sizeC divides the
\* count and however many slices have been appended since the last query;
\* a source that declares no channel count has sizeC = 1.
C14_LegacyShapeTruncates ==
    (pc = "returned" /\ target = "legacy.shape")
    => /\ ret.status = "ok"
       /\ LET sh == ret.val[1]
          IN  /\ Len(sh) = 4
              /\ sh[1] = SliceW /\ sh[2] = SliceH
              /\ sh[4] = legacy.sizeC
              /\ sh[3] * legacy.sizeC <= numSlices
              /\ numSlices < (sh[3] + 1) * legacy.sizeC
              /\ legacy = XYTCDataSource => sh[4] = 1

\* the shape of a source still spooling whose slice count sizeC does not
\* divide
C14_Witness ==
    /\ pc = "returned" /\ target = "legacy.shape"
    /\ ~source.complete
    /\ legacy.sizeC > 1
    /\ numSlices % legacy.sizeC # 0
    /\ ret.val[1][3] = numSlices \div legacy.sizeC

\* C15: no legacy read, in any extra-axis mode and for any index list, asks
\* the source for a slice with index >= (numSlices // sizeC) * sizeC.
C15_RemainderNeverRead ==
    (pc = "returned" /\ target = "legacy")
    => \A k \in 1..Len(reads) :
          reads[k] < (numSlices \div legacy.sizeC) * legacy.sizeC

\* the indices specifier i of the last legacy call enumerates on its axis
LegacyRange(i) ==
    RangeSeq(SliceIndices(NormalizeKey(lastKeys[i]), LegacyExtent(i)))

\* the slice of time t and channel c under the interleave of the legacy source
Deinterleave(t, c) ==
    IF legacy.additionalDims = ModeTC
       THEN t + c * LegacyExtent(3)
       ELSE t * LegacyExtent(4) + c

\* a read of the interleaved legacy source that went to the slices and came
\* back with an array
IsInterleavedRead ==
    /\ pc = "returned" /\ target = "legacy" /\ Len(lastKeys) = 4
    /\ legacy.additionalDims \in {ModeTC, ModeCT}
    /\ reads # <<>>
    /\ ret.status = "ok"

\* C16: a read in the interleaved mode reads, for each requested channel c
\* and within it each requested time t, the slice t + c*sizeT ('TC') or
\* t*sizeC + c ('CT'); the array holds the cropped slice of (t, c) at
\* [:, :, ti, ci], and has no channel axis if and only if exactly one channel
\* was requested.
C16_InterleavedReadDeinterleaves ==
    IsInterleavedRead =>
        LET ts == LegacyRange(3)
            cs == LegacyRange(4)
            xs == RangeSeq(SliceIndices(NormalizeKey(lastKeys[1]), SliceW))
            ys == RangeSeq(SliceIndices(NormalizeKey(lastKeys[2]), SliceH))
            a == ret.val[1]
        IN  /\ reads = [k \in 1..(Len(cs) * Len(ts)) |->
                          Deinterleave(ts[((k - 1) % Len(ts)) + 1],
                                       cs[((k - 1) \div Len(ts)) + 1])]
            /\ Len(a.shape) = 3 <=> Len(cs) = 1
            /\ a.shape = IF Len(cs) = 1
                            THEN <<Len(xs), Len(ys), Len(ts)>>
                            ELSE <<Len(xs), Len(ys), Len(ts), Len(cs)>>
            /\ \A x \in 1..Len(xs), y \in 1..Len(ys), t \in 1..Len(ts),
                  c \in 1..Len(cs) :
                  a.data[IF Len(cs) = 1
                            THEN <<x - 1, y - 1, t - 1>>
                            ELSE <<x - 1, y - 1, t - 1, c - 1>>]
                     = <<Deinterleave(ts[t], cs[c]), xs[x], ys[y]>>

\* every channel and every time of a 'CT' source with sizeC > 1
C16_Witness ==
    /\ IsInterleavedRead
    /\ legacy.additionalDims = ModeCT
    /\ lastKeys = <<Full, Full, Full, Full>>
    /\ LegacyExtent(3) > 1 /\ LegacyExtent(4) > 1
    /\ Len(ret.val[1].shape) = 4

\* the indices specifier i of the last canonical call enumerates on its axis
CanonRange(i) ==
    RangeSeq(SliceIndices(NormalizeKey(lastKeys[i]), canon.shape[i]))

\* C17: a canonical read over a source that holds every declared slice asks
\* the source for exactly |Z|*|T|*|C| slices, the slice of each requested
\* (z,t,c) once, channel outermost, then time, depth innermost; as nothing is
\* cached this holds for every read, whatever was read before (stated for
\* step-less specifiers).
C17_CanonicalReadsEveryCoordinateInOrder ==
    (/\ pc = "returned" /\ target = "canon" /\ Len(lastKeys) = 5
     /\ numSlices = sizeZ * sizeT * sizeC5
     /\ \A i \in 3..5 : lastKeys[i].step = None)
    => LET zs == CanonRange(3)
           ts == CanonRange(4)
           cs == CanonRange(5)
       IN  reads = [k \in 1..(Len(cs) * Len(ts) * Len(zs)) |->
                      StrideIndex(zs[((k - 1) % Len(zs)) + 1],
                                  ts[(((k - 1) \div Len(zs)) % Len(ts)) + 1],
                                  cs[((k - 1) \div (Len(zs) * Len(ts))) + 1])]

\* the slice indices of the range of the extra-axis specifier of index list
\* keys, clamped to the slice count: start, start + step, ... below stop
ClampedExtraRange(keys) ==
    RangeSeq(SliceIndices(NormalizeKey(keys[3]), numSlices))

\* the slices idxs, each cropped to the ranges xs and ys, stacked in order
\* along a trailing axis
CroppedStack(idxs, xs, ys) ==
    [shape |-> <<Len(xs), Len(ys), Len(idxs)>>,
     data |-> [p \in (0..(Len(xs) - 1)) \X (0..(Len(ys) - 1))
                      \X (0..(Len(idxs) - 1)) |->
                 <<idxs[p[3] + 1], xs[p[1] + 1], ys[p[2] + 1]>>]]

\* C18: in the non-interleaved mode (one extra axis, not channel) a read
\* that is not served from the cache asks the source for each slice of the
\* extra-axis range clamped to the slice count, in ascending order, and a
\* read that returns gives the cropped slices stacked in that order along a
\* trailing axis.
C18_NonInterleavedReadsRangeInOrder ==
    [][(/\ pc = "idle" /\ pc' = "returned" /\ target' = "legacy"
        /\ nTrueDims(legacy) <= 3 /\ legacy.additionalDims # ModeC
        /\ ~CacheHit(legacy, NormalizeKeys(lastKeys')))
       => /\ reads' = ClampedExtraRange(lastKeys')
          /\ \A k \in 1..(Len(reads') - 1) : reads'[k] < reads'[k + 1]
          /\ ret'.status = "ok" =>
                ret'.val = Some(CroppedStack(
                    reads',
                    RangeSeq(SliceIndices(NormalizeKey(lastKeys'[1]), SliceW)),
                    RangeSeq(SliceIndices(NormalizeKey(lastKeys'[2]),
                                          SliceH))))]_vars

\* every other slice from slice 1 on, of a source with a remainder
C18_Witness ==
    /\ pc = "returned" /\ target = "legacy"
    /\ legacy.additionalDims = ModeT
    /\ lastKeys = <<Full, Full, SliceKey(Some(1), None, Some(2))>>
    /\ Len(reads) = 2 /\ reads[1] = 1 /\ reads[2] = 3
    /\ ret.status = "ok"
    /\ ret.val[1].shape = <<SliceW, SliceH, 2>>

\* C19: auto_promote of a legacy source constructs the canonical addressor
\* with order 'XYZCT', sizeZ = 1, sizeT = extent for the 'CT' interleave;
\* otherwise with order 'XYZTC' and (sizeZ = 1, sizeT = extent) if the extent
\* is above 100, (sizeZ = extent, sizeT = 1) if it is 100 or less; sizeC is
\* the legacy channel count and sizeZ*sizeT the legacy extent.
C19_AutoPromoteChoice ==
    [][(~canon.built /\ canon'.built)
       => LET extent == LegacyExtent(3)
              sh == canon'.shape
          IN  /\ sh[5] = legacy.sizeC
              /\ sh[3] * sh[4] = extent
              /\ legacy.additionalDims = ModeCT
                    => /\ canon'.input_order = "XYZCT"
                       /\ sh[3] = 1 /\ sh[4] = extent
              /\ (legacy.additionalDims # ModeCT /\ extent > 100)
                    => /\ canon'.input_order = "XYZTC"
                       /\ sh[3] = 1 /\ sh[4] = extent
              /\ (legacy.additionalDims # ModeCT /\ extent <= 100)
                    => /\ canon'.input_order = "XYZTC"
                       /\ sh[3] = extent /\ sh[4] = 1]_vars

\* a series of exactly 100 frames promoted to a depth stack
C19_Witness ==
    /\ canon.built
    /\ canon.input_order = "XYZTC"
    /\ legacy.additionalDims = ModeT
    /\ LegacyExtent(3) = 100
    /\ sizeZ = 100 /\ sizeT = 1 /\ sizeC5 = legacy.sizeC

\* a constructor call has just returned or raised
IsConstructed == pc = "returned" /\ target = "construct"

\* a tag that lists X, Y and then Z, T and C once each, in some order
IsSupportedPermutation(ch) ==
    /\ Len(ch) = 5
    /\ ch[1] = "X" /\ ch[2] = "Y"
    /\ {ch[3], ch[4], ch[5]} = {"Z", "T", "C"}

\* C20: constructing a canonical addressor fails with the invalid-order
\* error when the tag does not start with 'XY', fails with the (different)
\* unsupported-order error when it starts with 'XY' but is not one of the six
\* permutations, and succeeds, with the three strides defined, exactly when
\* the tag is one of the six.
C20_ConstructionErrors ==
    IsConstructed =>
        LET ch == TagChars(lastKeys[1].input_order)
            leadsXY == Len(ch) >= 2 /\ ch[1] = "X" /\ ch[2] = "Y"
            invalid ==
                Raised("RuntimeError: First 2 dimensions of input must be X and Y")
            unsupported == Raised("RuntimeError: Input order not supported")
        IN  /\ invalid # unsupported
            /\ ~leadsXY => (ret = invalid /\ ~canon.built)
            /\ (leadsXY /\ ~IsSupportedPermutation(ch))
                  => (ret = unsupported /\ ~canon.built)
            /\ ret.status = "ok" <=> IsSupportedPermutation(ch)
            /\ ret.status = "ok"
                  => /\ canon.built
                     /\ canon.input_order = lastKeys[1].input_order
                     /\ canon.z_stride >= 1
                     /\ canon.t_stride >= 1
                     /\ canon.c_stride >= 1
                     /\ canon.shape[3] = lastKeys[1].size_z
                     /\ canon.shape[4] = lastKeys[1].size_t
                     /\ canon.shape[5] = lastKeys[1].size_c

\* a tag that leads with X and Y but repeats the depth axis
C20_Witness ==
    /\ IsConstructed
    /\ lastKeys[1].input_order = "XYZTZ"
    /\ ret.status = "raise"
    /\ ret.exc = "RuntimeError: Input order not supported"
    /\ ~canon.built

\* C21: a canonical read given a number of index specifiers other than 5
\* raises the dimension-count error, asks the source for no slice and returns
\* nothing.
C21_WrongSpecifierCountFails ==
    (pc = "returned" /\ target = "canon" /\ Len(lastKeys) # 5)
    => /\ ret.status = "raise"
       /\ ret.exc = "RuntimeError: Must provide a 5-dimensional slice"
       /\ ret.val = None
       /\ reads = <<>>

\* four specifiers, as a legacy caller would give
C21_Witness ==
    /\ pc = "returned" /\ target = "canon"
    /\ lastKeys = <<Full, Full, Full, Full>>
    /\ ret.status = "raise"
    /\ reads = <<>>

\* the last call asked the source for a slice it does not hold
SourceFailed == \E k \in 1..Len(reads) : reads[k] < 0 \/ reads[k] >= numSlices

\* C22: a read during which the source is asked for a slice it does not hold
\* fails with the source's IndexOutOfRange: the failing request is the last
\* one the read makes and nothing is returned in place of the error.
C22_SourceErrorPropagates ==
    (/\ pc = "returned" /\ target \in {"canon", "legacy", "flat"}
     /\ SourceFailed)
    => /\ ret.status = "raise"
       /\ ret.exc = "IndexOutOfRange"
       /\ ret.val = None
       /\ \A k \in 1..(Len(reads) - 1) :
             0 <= reads[k] /\ reads[k] < numSlices

\* a canonical addressor that declares one slice more than the source holds,
\* failing on the last slice of a full read
C22_Witness ==
    /\ pc = "returned" /\ target = "canon"
    /\ numSlices = sizeZ * sizeT * sizeC5 - 1
    /\ Len(reads) > 1
    /\ reads[Len(reads)] = numSlices
    /\ ret = Raised("IndexOutOfRange")

\* C23: the shape a promoted canonical addressor reports is the 5-tuple
\* (width, height, sizeZ, sizeT, sizeC) of its construction: no read, query
\* or append changes the addressor, and every shape query returns the tuple
\* it was constructed with.
C23_CanonicalShapeFixed ==
    /\ []((pc = "returned" /\ target = "canon.shape")
            => /\ ret = Returned(Some(canon.shape))
               /\ Len(canon.shape) = 5
               /\ canon.shape[1] = SliceW /\ canon.shape[2] = SliceH)
    /\ [][canon.built => canon' = canon]_vars

\* a shape query on an addressor promoted from fewer slices than the source
\* holds by now
C23_Witness ==
    /\ pc = "returned" /\ target = "canon.shape"
    /\ ret.status = "ok"
    /\ sizeZ * sizeT * sizeC5 < numSlices
    /\ legacy.sizeC = 1

\* a step in which the caller's read on addressor a runs
ReadStep(a) == pc = "idle" /\ pc' = "returned" /\ target' = a

\* C24: no read changes the slice source; a canonical read leaves the
\* addressor (order tag, strides, shape) and everything else unchanged, and a
\* legacy read changes nothing but the cache fields oldSlice and oldData of
\* the addressor it is made on.
C24_ReadsChangeOnlyTheCache ==
    [][/\ (ReadStep("canon") \/ ReadStep("legacy"))
             => (numSlices' = numSlices /\ source' = source)
       /\ ReadStep("canon")
             => (canon' = canon /\ legacy' = legacy /\ flat' = flat)
       /\ ReadStep("legacy")
             => /\ canon' = canon /\ flat' = flat
                /\ legacy'.built = legacy.built
                /\ legacy'.additionalDims = legacy.additionalDims
                /\ legacy'.sizeC = legacy.sizeC
                /\ DOMAIN legacy' = DOMAIN legacy]_vars

\* a legacy read that replaced the cache of an addressor with two channels,
\* next to a constructed canonical addressor
C24_Witness ==
    /\ pc = "returned" /\ target = "legacy"
    /\ canon.built
    /\ legacy.sizeC = 2
    /\ legacy.oldSlice = Some(NormalizeKeys(lastKeys))
    /\ legacy.oldData # None
    /\ reads # <<>>

\* C25: a legacy read that raises leaves the cache as it was before the
\* read: both the cached key and the cached array are unchanged, so the
\* cached key always belongs to the cached array.
C25_FailedReadLeavesCache ==
    [][(ReadStep("legacy") /\ ret'.status = "raise")
       => (legacy'.oldSlice = legacy.oldSlice
           /\ legacy'.oldData = legacy.oldData)]_vars

\* C26: in a canonical read the extent _slice_len allocates for each axis
\* equals the number of indices the normalised range of that axis
\* enumerates, so no write falls outside the buffer (stated for ranges whose
\* clamped start is not above their clamped stop, with one time and one
\* channel index).
C26_SliceLenCountsIndices ==
    (/\ pc = "returned" /\ target = "canon" /\ Len(lastKeys) = 5
     /\ numSlices = sizeZ * sizeT * sizeC5
     /\ KeyCount(4, sizeT) = 1 /\ KeyCount(5, sizeC5) = 1
     /\ \A i \in 1..5 : KeyExtent(i, canon.shape[i]) >= 0)
    => /\ \A i \in 1..5 :
             KeyExtent(i, canon.shape[i]) = KeyCount(i, canon.shape[i])
       /\ ret.status = "ok"

\* the slices the legacy source reads for extra-axis index e and channel c
LegacyReadsOf(e, c) ==
    XYTC_compute(legacy, NormalizeKeys(<<Full, Full, IntKey(e), IntKey(c)>>),
                 numSlices).reads

\* the slices the promoted addressor reads for the same coordinate: e on
\* the axis auto_promote gave the legacy extent to, the other axis at 0
PromotedReadsOf(e, c) ==
    XYZTC_getitem(canon,
                  IF sizeZ = 1
                     THEN <<Full, Full, IntKey(0), IntKey(e), IntKey(c)>>
                     ELSE <<Full, Full, IntKey(e), IntKey(0), IntKey(c)>>,
                  numSlices).reads

\* C27: for every legacy source and every in-range (e, c), the auto-promoted
\* addressor reads for the corresponding (z,t,c) the physical slice the
\* legacy read of (e, c) reads (stated for sources that declare one
\* channel when their extra axis is 'T').
C27_PromotionPreservesAddressing ==
    (canon.built /\ (legacy.additionalDims = ModeT => legacy.sizeC = 1)) =>
        \A e \in 0..(LegacyExtent(3) - 1), c \in 0..(LegacyExtent(4) - 1) :
            PromotedReadsOf(e, c) = LegacyReadsOf(e, c)

\* a read of one channel through the wrapper that went to the slices, over a
\* source that holds every declared slice
IsFlatChannelRead ==
    /\ pc = "returned" /\ target = "flat"
    /\ numSlices = sizeZ * sizeT * sizeC5
    /\ Len(lastKeys) = 4
    /\ lastKeys[3] = Full
    /\ lastKeys[4].bare
    /\ lastKeys[4].start[1] \in 0..(sizeC5 - 1)
    /\ reads # <<>>

\* C28: over a canonical addressor whose source holds sizeZ*sizeT*sizeC
\* slices the wrapper's shape is (width, height, sizeZ*sizeT, sizeC), and
\* the slices its read of channel c asks for are exactly the slices the
\* addressor's stride map gives channel c, whatever the order tag.
C28_FlattenKeepsChannels ==
    /\ (flat.built /\ numSlices = sizeZ * sizeT * sizeC5)
          => XYTC_shape(flat, numSlices)
                = <<SliceW, SliceH, sizeZ * sizeT, sizeC5>>
    /\ IsFlatChannelRead
          => {reads[k] : k \in 1..Len(reads)}
                = {StrideIndex(z, t, lastKeys[4].start[1]) :
                      z \in 0..(sizeZ - 1), t \in 0..(sizeT - 1)}

\* C29: every slice index a legacy read asks the source for, and every one a
\* read through a wrapper built with auto_promote asks for, lies in
\* [0, numSlices), so the source never raises IndexOutOfRange.
C29_ReadsStayInSource ==
    (pc = "returned" /\ target \in {"legacy", "canon"})
    => /\ \A k \in 1..Len(reads) : 0 <= reads[k] /\ reads[k] < numSlices
       /\ ret.exc # "IndexOutOfRange"

\* the last channel read through the addressor promoted from a source whose
\* slice count its two channels do not divide
C29_Witness ==
    /\ pc = "returned" /\ target = "canon"
    /\ legacy.sizeC = 2
    /\ numSlices % 2 = 1
    /\ lastKeys = <<Full, Full, Full, Full, IntKey(0 - 1)>>
    /\ ret.status = "ok"
    /\ reads # <<>>
    /\ reads[Len(reads)] = sizeZ * sizeT * sizeC5 - 1

\* StopSpool has run to its end: it alone closes the file
StopSpoolHasRun == spool.self.h5File = "closed"

\* the step is the finaliser's
IsDelStep == spool.alive /\ ~spool'.alive

\* C30: in every state reached by frame notifications, events, StopSpool
\* calls and the finaliser, imNum is the number of frames appended to
\* imageData; once StopSpool has run, spoolOn is false, Tick and the event
\* logger are registered nowhere and no further frame is appended; and
\* __del__ enters StopSpool exactly when spoolOn is still true
C30_SpoolerInvariants ==
    /\ [](spool.self.imNum = Len(spool.self.imageData))
    /\ [](StopSpoolHasRun
          => /\ ~spool.self.spoolOn
             /\ ~Contains(spool.WantFrameNotification, "Tick")
             /\ ~Contains(spool.WantEventNotification, "evtLogger"))
    /\ [][StopSpoolHasRun
          => spool'.self.imageData = spool.self.imageData]_vars
    /\ [][IsDelStep
          => (Contains(spool'.call.trace, "StopSpool")
              <=> spool.self.spoolOn)]_vars

\* frames were spooled, StopSpool ran, later frames were delivered and not
\* appended, and the finaliser then left StopSpool alone
C30_Witness ==
    /\ StopSpoolHasRun
    /\ ~spool.alive
    /\ spool.call.trace = <<"__del__">>
    /\ spool.self.imNum = 2
    /\ spool.frame = MaxFrames
    /\ spool.self.md = <<"StartTime", "EndTime">>

====
